---------------------------- MODULE Spec2Model ----------------------------
(***************************************************************************)
(* A model of the resource estimation engine of src/src/App.js (the second *)
(* QuantumCalculator component, lines 860-1307): the code library and its  *)
(* calculateParams formulas, findRequiredN, generatePlotData.              *)
(*                                                                         *)
(* Numbers.  Qubit counts reach 1e10, beyond TLC's 32-bit integers, so a   *)
(* count is a pair <<hi, lo>> standing for hi * Base + lo ("Big").  Error  *)
(* rates are JavaScript doubles that only ever meet multiplication,        *)
(* Math.pow, Math.log10 and comparison, so a rate x is carried as its      *)
(* decimal logarithm in fixed point: the integer Decade * log10(x).  A     *)
(* double that underflows to 0 is NegInfinity, one that overflows is       *)
(* Infinity, as Math.log10 reports them.                                   *)
(***************************************************************************)
EXTENDS Integers, Sequences, FiniteSets, TLC

(***************************************************************************)
(* Fixed point and doubles                                                 *)
(***************************************************************************)
\* log10 values are integers in units of 1/Decade of a decade
Decade == 100000
\* Decade * |log10| of the smallest double that does not round to 0 (5e-324 / 2)
UnderflowLog == 32360700
\* Decade * log10 of the largest finite double (1.797e308)
OverflowLog == 30825470
\* minDiff = Infinity, and the log10 of an overflowed double
Infinity == 2000000000
\* Math.log10(0)
NegInfinity == -2000000000

Abs(x) == IF x < 0 THEN -x ELSE x
Max(a, b) == IF a >= b THEN a ELSE b

(***************************************************************************)
(* Big: qubit counts as <<hi, lo>> = hi * Base + lo, 0 <= lo < Base        *)
(***************************************************************************)
Base == 100000

BigNorm(hi, lo) == <<hi + (lo \div Base), lo % Base>>
ToBig(x) == BigNorm(0, x)
BigAdd(a, b) == BigNorm(a[1] + b[1], a[2] + b[2])
BigLt(a, b) == a[1] < b[1] \/ (a[1] = b[1] /\ a[2] < b[2])
BigLe(a, b) == a = b \/ BigLt(a, b)
BigGt(a, b) == BigLt(b, a)
\* Math.floor(a / 2)
BigHalf(a) == <<a[1] \div 2, ((a[1] % 2) * Base + a[2]) \div 2>>
\* Math.floor(a / k) for a small positive k
BigDivSmall(a, k) == <<a[1] \div k, ((a[1] % k) * Base + a[2]) \div k>>
\* a * m for a small m
BigMulSmall(a, m) == BigNorm(a[1] * m, a[2] * m)
\* d * d for 0 <= d < 400000, by d = x * 1000 + y
BigSquare(d) ==
  LET x == d \div 1000
      y == d % 1000
      t == 2 * x * y
  IN  BigNorm(10 * x * x + (t \div 100), (t % 100) * 1000 + y * y)

RECURSIVE SqrtSearch(_, _, _)
\* the d in lo .. hi-1 with d*d <= a < (d+1)*(d+1), given lo*lo <= a < hi*hi
SqrtSearch(a, lo, hi) ==
  IF hi - lo <= 1 THEN lo
  ELSE LET mid == (lo + hi) \div 2
       IN  IF BigLe(BigSquare(mid), a) THEN SqrtSearch(a, mid, hi)
           ELSE SqrtSearch(a, lo, mid)

\* Math.floor(Math.sqrt(n / k)): the quotient is below 4e10
FloorSqrtRatio(n, k) == SqrtSearch(BigDivSmall(n, k), 0, 200000)

(***************************************************************************)
(* Math.log10 and Math.pow(10, .) in fixed point: a table at two           *)
(* significant digits and linear interpolation between its entries         *)
(***************************************************************************)
\* Log10Table[m - 9] = Decade * log10(m / 10), m = 10 .. 100
Log10Table ==
  <<
     0, 4139, 7918, 11394, 14613, 17609, 20412, 23045, 25527, 27875,
     30103, 32222, 34242, 36173, 38021, 39794, 41497, 43136, 44716, 46240,
     47712, 49136, 50515, 51851, 53148, 54407, 55630, 56820, 57978, 59106,
     60206, 61278, 62325, 63347, 64345, 65321, 66276, 67210, 68124, 69020,
     69897, 70757, 71600, 72428, 73239, 74036, 74819, 75587, 76343, 77085,
     77815, 78533, 79239, 79934, 80618, 81291, 81954, 82607, 83251, 83885,
     84510, 85126, 85733, 86332, 86923, 87506, 88081, 88649, 89209, 89763,
     90309, 90849, 91381, 91908, 92428, 92942, 93450, 93952, 94448, 94939,
     95424, 95904, 96379, 96848, 97313, 97772, 98227, 98677, 99123, 99564,
     100000
  >>

\* Pow10Table[j + 1] = 10000 * 10^(j / 100), j = 0 .. 100
Pow10Table ==
  <<
     10000, 10233, 10471, 10715, 10965, 11220, 11482, 11749, 12023, 12303,
     12589, 12882, 13183, 13490, 13804, 14125, 14454, 14791, 15136, 15488,
     15849, 16218, 16596, 16982, 17378, 17783, 18197, 18621, 19055, 19498,
     19953, 20417, 20893, 21380, 21878, 22387, 22909, 23442, 23988, 24547,
     25119, 25704, 26303, 26915, 27542, 28184, 28840, 29512, 30200, 30903,
     31623, 32359, 33113, 33884, 34674, 35481, 36308, 37154, 38019, 38905,
     39811, 40738, 41687, 42658, 43652, 44668, 45709, 46774, 47863, 48978,
     50119, 51286, 52481, 53703, 54954, 56234, 57544, 58884, 60256, 61660,
     63096, 64565, 66069, 67608, 69183, 70795, 72444, 74131, 75858, 77625,
     79433, 81283, 83176, 85114, 87096, 89125, 91201, 93325, 95499, 97724,
     100000
  >>

\* the number of decimal digits of 1 <= x < 10^9
NumDigits(x) ==
  IF x < 10 THEN 1 ELSE IF x < 100 THEN 2 ELSE IF x < 1000 THEN 3
  ELSE IF x < 10000 THEN 4 ELSE IF x < 100000 THEN 5
  ELSE IF x < 1000000 THEN 6 ELSE IF x < 10000000 THEN 7
  ELSE IF x < 100000000 THEN 8 ELSE 9

\* Decade * log10(m / 1000) for a four-digit mantissa m = 1000 .. 9999
MantissaLog(m) ==
  LET i == (m \div 100) - 9
      f == m % 100
  IN  Log10Table[i] + ((Log10Table[i + 1] - Log10Table[i]) * f) \div 100

\* Decade * Math.log10(n) for a Big n >= 1
BigLog10(n) ==
  IF n[1] = 0
  THEN LET dg == NumDigits(n[2])
           m  == IF dg <= 4 THEN n[2] * 10^(4 - dg) ELSE n[2] \div 10
       IN  (dg - 1) * Decade + MantissaLog(m)
  ELSE LET dh == NumDigits(n[1])
           m  == IF dh >= 4 THEN n[1] \div 10^(dh - 4)
                 ELSE n[1] * 10^(4 - dh) + (n[2] \div 10^(1 + dh))
       IN  (dh + 4) * Decade + MantissaLog(m)

\* 1000 * Math.pow(10, y / Decade) for 0 <= y <= 6 * Decade
Pow10Milli(y) ==
  LET q == y \div Decade
      f == y % Decade
      j == f \div 1000
      r == f % 1000
      m == Pow10Table[j + 1] + ((Pow10Table[j + 2] - Pow10Table[j + 1]) * r) \div 1000
  IN  IF q = 0 THEN m \div 10 ELSE m * 10^(q - 1)

\* Decade * log10(Math.pow(x, e2 / 2)) where L = Decade * log10(x), e2 >= 0:
\* 0 once the power underflows, Infinity once it overflows
PowLog(L, e2) ==
  IF e2 = 0 \/ L = 0 THEN 0
  ELSE IF L < 0
  THEN IF e2 > (2 * UnderflowLog) \div (-L) THEN NegInfinity
       ELSE (e2 * L) \div 2
  ELSE IF e2 > (2 * OverflowLog) \div L THEN Infinity
       ELSE (e2 * L) \div 2

\* Decade * log10(Math.pow(x, e / 1000)) for an exponent e given in thousandths
PowLogMilli(L, e) ==
  IF e = 0 \/ L = 0 THEN 0
  ELSE IF L < 0
  THEN IF e \div 1000 > UnderflowLog \div (-L) THEN NegInfinity
       ELSE -((e \div 1000) * (-L) + ((e % 1000) * (-L)) \div 1000)
  ELSE IF e \div 1000 > OverflowLog \div L THEN Infinity
       ELSE (e \div 1000) * L + ((e % 1000) * L) \div 1000

\* the log10 of a product a * x of doubles, x given by its log10
TimesLog(logA, logX) ==
  IF logX = NegInfinity THEN NegInfinity
  ELSE IF logX = Infinity THEN Infinity
  ELSE IF logA + logX < -UnderflowLog THEN NegInfinity
  ELSE IF logA + logX > OverflowLog THEN Infinity
  ELSE logA + logX

(***************************************************************************)
(* codeLibrary (App.js 897-1034).  params is [p, n, k]: p the log10 of the *)
(* physical error rate, n a Big, k a positive integer.  A result holds     *)
(* epsilon_L as a log10, n as a Big and n_ancilla as a Big counted in      *)
(* tenths of a qubit (the yoke overheads 1.2 and 1.5 are 12 and 15 tenths).*)
(***************************************************************************)
Codes == {"surface", "yoked_1d", "yoked_2d", "color", "hypergraph", "lifted"}
DistanceCodes == {"surface", "yoked_1d", "yoked_2d", "color"}

\* the threshold field of each entry, as Decade * log10
threshold(code) ==
  CASE code = "surface"    -> -195861   \* 0.011
    [] code = "yoked_1d"   -> -195861   \* 0.011
    [] code = "yoked_2d"   -> -195861   \* 0.011
    [] code = "color"      -> -244370   \* 0.0036
    [] code = "hypergraph" -> -222185   \* 0.006
    [] code = "lifted"     -> -218046   \* 0.0066

\* Decade * log10(0.03 * k)
Log003k(k) == -152288 + BigLog10(ToBig(k))

\* k * (Math.pow(d - 1, 2) + 2 * (d - 1)) * (tenths / 10), in tenths
ancillaSignSlip(k, d, tenths) ==
  BigMulSmall(BigAdd(BigSquare(Abs(d - 1)), ToBig(-2 * (d - 1))), k * tenths)
ancilla(k, d, tenths) ==
  BigMulSmall(BigAdd(BigSquare(Abs(d - 1)), ToBig(2 * (d - 1))), k * tenths)

surfaceParamsSwapped(params) ==
  LET p_ratio == params.p - (-195861)
      d == FloorSqrtRatio(ToBig(params.k), Max(1, params.n[2]))
  IN  [d |-> d,
       n_ancilla |-> ancilla(params.k, d, 10),
       epsilon_L |-> TimesLog(Log003k(params.k), PowLog(p_ratio, d)),
       k |-> params.k,
       n |-> params.n]

surfaceParams(params) ==
  LET p_ratio == params.p - (-195861)
      d == FloorSqrtRatio(params.n, params.k)
  IN  [d |-> d,
       n_ancilla |-> ancilla(params.k, d, 10),
       epsilon_L |-> TimesLog(Log003k(params.k), PowLog(p_ratio, d)),
       k |-> params.k,
       n |-> params.n]

yoked1dParamsOuterD(params) ==
  LET p_ratio == params.p - (-195861)
      d_in == FloorSqrtRatio(params.n, params.k)
      d == (18 * d_in) \div 10
  IN  [d |-> d,
       n_ancilla |-> ancilla(params.k, d, 12),
       epsilon_L |-> TimesLog(Log003k(params.k), PowLog(p_ratio, 2 * ((d + 1) \div 2))),
       k |-> params.k,
       n |-> params.n]

yoked1dParamsNoYoke(params) ==
  LET p_ratio == params.p - (-195861)
      d_in == FloorSqrtRatio(params.n, params.k)
      d == d_in
  IN  [d |-> d,
       n_ancilla |-> ancilla(params.k, d_in, 12),
       epsilon_L |-> TimesLog(Log003k(params.k), PowLog(p_ratio, 2 * ((d + 1) \div 2))),
       k |-> params.k,
       n |-> params.n]

yoked1dParams(params) ==
  LET p_ratio == params.p - (-195861)
      d_in == FloorSqrtRatio(params.n, params.k)
      \* mu_1d = 1.8
      d == (18 * d_in) \div 10
  IN  [d |-> d,
       n_ancilla |-> ancilla(params.k, d_in, 12),
       epsilon_L |-> TimesLog(Log003k(params.k), PowLog(p_ratio, 2 * ((d + 1) \div 2))),
       k |-> params.k,
       n |-> params.n]

yoked2dParamsMu1d(params) ==
  LET p_ratio == params.p - (-195861)
      d_in == FloorSqrtRatio(params.n, params.k)
      d == (18 * d_in) \div 10
  IN  [d |-> d,
       n_ancilla |-> ancilla(params.k, d_in, 15),
       epsilon_L |-> TimesLog(Log003k(params.k), PowLog(p_ratio, 2 * ((d + 1) \div 2))),
       k |-> params.k,
       n |-> params.n]

yoked2dParams(params) ==
  LET p_ratio == params.p - (-195861)
      d_in == FloorSqrtRatio(params.n, params.k)
      \* mu_2d = 3.2
      d == (32 * d_in) \div 10
  IN  [d |-> d,
       n_ancilla |-> ancilla(params.k, d_in, 15),
       epsilon_L |-> TimesLog(Log003k(params.k), PowLog(p_ratio, 2 * ((d + 1) \div 2))),
       k |-> params.k,
       n |-> params.n]

colorParamsInverted(params) ==
  LET p_ratio == (-244370) - params.p
      d == FloorSqrtRatio(params.n, params.k)
  IN  [d |-> d,
       n_ancilla |-> ancilla(params.k, d, 10),
       epsilon_L |-> TimesLog(Log003k(params.k), PowLog(p_ratio, 2 * ((d + 1) \div 2))),
       k |-> params.k,
       n |-> params.n]

colorParams(params) ==
  LET p_ratio == params.p - (-244370)
      d == FloorSqrtRatio(params.n, params.k)
  IN  [d |-> d,
       n_ancilla |-> ancilla(params.k, d, 10),
       epsilon_L |-> TimesLog(Log003k(params.k), PowLog(p_ratio, 2 * ((d + 1) \div 2))),
       k |-> params.k,
       n |-> params.n]

\* 1000 * Math.pow(n, h / 100): Math.pow(0, h / 100) is 0
PowN(n, h) == IF n = ToBig(0) THEN 0 ELSE Pow10Milli((BigLog10(n) * h) \div 100)

hypergraphParams(params) ==
  LET p_ratio == params.p - (-222185)
      \* 1000 * Math.pow(n, 0.27), then 1000 * 0.47 * Math.pow(n, 0.27)
      pw == PowN(params.n, 27)
      e  == (pw * 47) \div 100
  IN  [epsilon_L |-> TimesLog(-115490, PowLogMilli(p_ratio, e)),
       n |-> params.n]

liftedParams(params) ==
  LET p_ratio == params.p - (-218046)
      \* 1000 * Math.pow(n, 0.60), then 1000 * 0.11 * Math.pow(n, 0.60)
      pw == PowN(params.n, 60)
      e  == (pw \div 100) * 11 + ((pw % 100) * 11) \div 100
  IN  [epsilon_L |-> TimesLog(36173, PowLogMilli(p_ratio, e)),
       n |-> params.n]

\* selectedCode.calculateParams(params)
calculateParams(code, params) ==
  CASE code = "surface"    -> surfaceParams(params)
    [] code = "yoked_1d"   -> yoked1dParams(params)
    [] code = "yoked_2d"   -> yoked2dParams(params)
    [] code = "color"      -> colorParams(params)
    [] code = "hypergraph" -> hypergraphParams(params)
    [] code = "lifted"     -> liftedParams(params)

(***************************************************************************)
(* State                                                                   *)
(***************************************************************************)
VARIABLES
  inputs,      \* useState inputs: [code, p, epsilon_L, n, k, d]
  results,     \* useState results: the last calculateParams result, or empty
  error,       \* useState error
  dirty,       \* TRUE while the calculateResults effect is due to run
  pc,          \* the engine's position: "idle", inside a call, or "done"
  call,        \* the call in progress or just returned: [fn, code, p, epsilon_L, k]
  i,           \* generatePlotData: the sample index
  j,           \* the iteration of the binary search
  nMin,        \* the search bracket
  nMax,
  n,           \* the last midpoint
  minDiff,
  bestResult,
  trace,       \* the results evaluated by the search so far, in order
  p,           \* generatePlotData: the physical error rate of the sample
  pValues,
  nValues,
  kValues,
  ret,         \* the value the call returned
  evals,       \* calculateParams evaluations made by the call
  slider,      \* a slider: [min, max, value, position, back, at]
  kept,        \* the plot data a caller holds from an earlier call, or null
  chain,       \* effects run since the last input event: [calcs, syncs]
  deb          \* a debounced function: its timeout variable, the timers, the
               \* clock and the history of calls and invocations

vars == <<inputs, results, error, dirty, pc, call, i, j, nMin, nMax, n,
          minDiff, bestResult, trace, p, pValues, nValues, kValues, ret, evals,
          slider, kept, chain, deb>>

uiVars == <<inputs, results, error, dirty, slider, kept, chain, deb>>
engineVars == <<pc, call, i, j, nMin, nMax, n, minDiff, bestResult,
                trace, p, pValues, nValues, kValues, ret, evals>>

\* JavaScript null, and an object with no properties
null == [isNull |-> TRUE]
empty == [isEmpty |-> TRUE]

\* no effect has run yet
noChain == [calcs |-> 0, syncs |-> 0]
\* a debounced function that has not been called: timeout is undefined (0)
noCalls == [now |-> 0, timeout |-> 0, nextId |-> 1, pending |-> {},
            calls |-> <<>>, invoked |-> <<>>]

(***************************************************************************)
(* Bounds of the model                                                     *)
(***************************************************************************)
\* the largest small n typed into the calculator
MaxN == 17
\* the largest small n the forward evaluator is tried on
MaxEvalN == 40
\* the largest k
MaxK == 3

\* a code id outside the library
UnknownCode == "invalid_code"
\* a code id outside the library that names a property every object inherits
\* from Object.prototype: codeLibrary["constructor"] is the function Object
InheritedKey == "constructor"
\* the ids tried: the six of the library and the two outside it
CodeIds == Codes \cup {UnknownCode, InheritedKey}

\* codeLibrary[code] is truthy
lookupFound(code) == code \in Codes \cup {InheritedKey}

\* the p computed from an undefined threshold
NaN == "NaN"

\* log10 of the physical error rates tried: 1e-6, 1e-5, 1e-3, 0.0036, 0.005,
\* 0.006, 0.0066, 0.011, 0.1
PValues ==
  {-600000, -500000, -300000, -244370, -230103, -222185, -218046, -195861, -100000}
\* log10 of the targets of the tables: 1e-3, 1e-6, 1e-15
Targets == {-300000, -600000, -1500000}
KValues == 1 .. MaxK
\* qubit counts typed into the calculator
NValues == (1 .. MaxN) \cup {1000, 1000000}
\* log10 of the physical error rates typed into the calculator: 1e-3, 0.005
UiPValues == {-300000, -230103}
\* logical qubit counts set in the calculator: small ones, the default 10 and
\* the top of the k slider
UiKValues == KValues \cup {10, 1000}

(***************************************************************************)
(* The calculator: calculateResults and the effects around it              *)
(* (App.js 1037-1118)                                                      *)
(***************************************************************************)
InitUi ==
  /\ inputs = [code |-> "surface", p |-> -300000, epsilon_L |-> -600000,
               n |-> 1000, k |-> 10, d |-> 3]
  /\ results = empty
  /\ error = ""
  /\ dirty = TRUE
  /\ slider = empty
  /\ kept = null
  /\ chain = noChain
  /\ deb = noCalls

InitEngine ==
  /\ pc = "idle"
  /\ call = empty
  /\ i = 0
  /\ j = 0
  /\ nMin = ToBig(10)
  /\ nMax = ToBig(10)
  /\ n = ToBig(10)
  /\ minDiff = Infinity
  /\ bestResult = null
  /\ trace = <<>>
  /\ p = 0
  /\ pValues = <<>>
  /\ nValues = <<>>
  /\ kValues = <<>>
  /\ ret = null
  /\ evals = 0

Init == InitUi /\ InitEngine

\* calculateResults, run by the effect that follows a change of inputs
calculateResults ==
  /\ dirty
  /\ dirty' = FALSE
  /\ IF ~lookupFound(inputs.code)
     THEN /\ error' = "not supported"
          /\ UNCHANGED results
     ELSE IF inputs.code \notin Codes
     THEN \* selectedCode.calculateParams is not a function: the TypeError is caught
          /\ error' = "Calculation error"
          /\ UNCHANGED results
     ELSE /\ error' = ""
          /\ results' = calculateParams(inputs.code,
                          [p |-> inputs.p, n |-> ToBig(inputs.n), k |-> inputs.k])
  /\ chain' = [chain EXCEPT !.calcs = @ + 1]
  /\ UNCHANGED <<inputs, slider, kept, deb, engineVars>>

\* results.d && results.d !== inputs.d
distanceDiffers == "d" \in DOMAIN results /\ results.d # 0 /\ results.d # inputs.d

\* the effect "Update code distance in inputs when results change"
syncDistanceOffByOne ==
  /\ ~dirty
  /\ distanceDiffers
  /\ inputs' = [inputs EXCEPT !.d = results.d + 1]
  /\ dirty' = TRUE
  /\ chain' = [chain EXCEPT !.syncs = @ + 1]
  /\ UNCHANGED <<results, error, slider, kept, deb, engineVars>>

syncDistance ==
  /\ ~dirty
  /\ distanceDiffers
  /\ inputs' = [inputs EXCEPT !.d = results.d]
  /\ dirty' = TRUE
  /\ chain' = [chain EXCEPT !.syncs = @ + 1]
  /\ UNCHANGED <<results, error, slider, kept, deb, engineVars>>

\* handleInputChange for one field; the effects of the previous render have
\* been flushed when the next event is handled
handleInputChange(name, value) ==
  /\ ~dirty
  /\ ~distanceDiffers
  /\ inputs[name] # value
  /\ inputs' = [inputs EXCEPT ![name] = value]
  /\ dirty' = TRUE
  /\ chain' = noChain
  /\ UNCHANGED <<results, error, slider, kept, deb, engineVars>>

NextUi ==
  \/ calculateResults
  \/ syncDistance
  \/ \E c \in Codes : handleInputChange("code", c)
  \/ \E v \in UiPValues : handleInputChange("p", v)
  \/ \E v \in NValues : handleInputChange("n", v)
  \/ \E v \in UiKValues : handleInputChange("k", v)

SpecUi == Init /\ [][NextUi]_vars

(***************************************************************************)
(* The forward evaluator on its own: calculateResults applied to every     *)
(* (code, p, n, k) of a bounded set                                        *)
(***************************************************************************)
EvalNValues == (0 .. MaxEvalN) \cup {1000, 4000, 1000000}

InitEval ==
  /\ inputs \in [code : CodeIds, p : UiPValues, epsilon_L : {-600000},
                  n : EvalNValues, k : KValues, d : {3}]
  /\ results = empty
  /\ error = ""
  /\ dirty = TRUE
  /\ slider = empty
  /\ kept = null
  /\ chain = noChain
  /\ deb = noCalls
  /\ InitEngine

NextEval ==
  \/ calculateResults
  \/ syncDistance

SpecEval == InitEval /\ [][NextEval]_vars

(***************************************************************************)
(* findRequiredN (App.js 1274-1307)                                        *)
(***************************************************************************)
\* Math.abs(Math.log10(epsilon_L) - Math.log10(target))
LogDiff(epsilon_L, target) ==
  IF epsilon_L = NegInfinity \/ epsilon_L = Infinity THEN Infinity
  ELSE Abs(epsilon_L - target)

\* result.epsilon_L > target
ExceedsInverted(epsilon_L, target) == epsilon_L < target
Exceeds(epsilon_L, target) == epsilon_L > target

\* Math.floor((nMin + nMax) / 2)
MidpointNoHalving(lo, hi) == BigAdd(lo, hi)
Midpoint(lo, hi) == BigHalf(BigAdd(lo, hi))

\* the iterations of the search
SolveIterationsShort == 20 - 6
SolveIterationsLong == 20 + 1
SolveIterations == 20

\* p >= selectedCode.threshold
aboveThresholdStrict(code, rate) == rate > threshold(code)
aboveThreshold(code, rate) == rate >= threshold(code)

\* diff < minDiff
takeLatest(diff, best) == TRUE
improvesOrTies(diff, best) == diff <= best
improves(diff, best) == diff < best

\* the call, up to the loop: the lookup and the threshold guard
findRequiredN(code, rate, target_epsilon_L, k) ==
  /\ pc \in {"idle", "done"}
  /\ call' = [fn |-> "findRequiredN", code |-> code, p |-> rate,
              epsilon_L |-> target_epsilon_L, k |-> k]
  /\ trace' = <<>>
  /\ p' = rate
  /\ evals' = 0
  /\ i' = 0
  /\ j' = 0
  /\ n' = ToBig(10)
  /\ pValues' = <<>>
  /\ nValues' = <<>>
  /\ kValues' = <<>>
  /\ minDiff' = Infinity
  /\ bestResult' = null
  /\ IF ~lookupFound(code)
     THEN /\ ret' = null
          /\ pc' = "done"
          /\ nMin' = ToBig(10)
          /\ nMax' = ToBig(10)
     ELSE IF code \in Codes /\ aboveThreshold(code, rate)
     THEN /\ ret' = null
          /\ pc' = "done"
          /\ nMin' = ToBig(10)
          /\ nMax' = ToBig(10)
     ELSE /\ ret' = null
          /\ pc' = "solve"
          /\ nMin' = ToBig(10)
          /\ nMax' = ToBig(1000000)
  /\ UNCHANGED uiVars

\* one iteration of the loop
solveIteration ==
  /\ pc = "solve"
  /\ j < SolveIterations
  /\ call.code \in Codes
  /\ LET mid == Midpoint(nMin, nMax)
         result == calculateParams(call.code,
                     [p |-> call.p, n |-> mid, k |-> call.k])
         diff == LogDiff(result.epsilon_L, call.epsilon_L)
     IN  /\ n' = mid
         /\ evals' = evals + 1
         /\ trace' = Append(trace, result)
         /\ IF improves(diff, minDiff)
            THEN minDiff' = diff /\ bestResult' = result
            ELSE UNCHANGED <<minDiff, bestResult>>
         /\ IF Exceeds(result.epsilon_L, call.epsilon_L)
            THEN nMin' = mid /\ UNCHANGED nMax
            ELSE nMax' = mid /\ UNCHANGED nMin
  /\ j' = j + 1
  /\ UNCHANGED <<pc, call, i, p, pValues, nValues, kValues, ret, uiVars>>

\* the call of selectedCode.calculateParams in the loop when the id found is
\* not an entry of the library: calculateParams is undefined, the call throws
\* a TypeError that nothing catches
solveThrow ==
  /\ pc = "solve"
  /\ j < SolveIterations
  /\ call.code \notin Codes
  /\ n' = Midpoint(nMin, nMax)
  /\ pc' = "threw"
  /\ UNCHANGED <<call, i, j, nMin, nMax, minDiff, bestResult, trace, p,
                 pValues, nValues, kValues, ret, evals, uiVars>>

\* return bestResult
solveReturn ==
  /\ pc = "solve"
  /\ j >= SolveIterations
  /\ ret' = bestResult
  /\ pc' = "done"
  /\ UNCHANGED <<call, i, j, nMin, nMax, n, minDiff, bestResult, trace, p,
                 pValues, nValues, kValues, evals, uiVars>>

NextSolve ==
  \/ \E code \in CodeIds, rate \in PValues,
        t \in Targets, k \in KValues : findRequiredN(code, rate, t, k)
  \/ solveIteration
  \/ solveThrow
  \/ solveReturn

SpecSolve == Init /\ [][NextSolve]_vars

(***************************************************************************)
(* generatePlotData (App.js 1191-1271)                                     *)
(***************************************************************************)
\* the samples of a curve
PlotSamples == 50
\* the iterations of the search of one sample
PlotIterations == 30
\* Decade * Math.log10(1e-6)
LogFloor == -600000
\* Decade * log10(0.99)
Log099 == -436
\* 1e9 and 1e10
Ceiling == <<10000, 0>>
PlotNMax == <<100000, 0>>

\* Math.pow(10, Math.log10(1e-6) +
\*             (Math.log10(threshold * 0.99) - Math.log10(1e-6)) * (i / 49))
samplePIntegerDivision(code, idx) ==
  LogFloor + ((threshold(code) + Log099) - LogFloor) * (idx \div (PlotSamples - 1))
sampleP(code, idx) ==
  LogFloor + (((threshold(code) + Log099) - LogFloor) * idx) \div (PlotSamples - 1)

\* Math.floor(Math.pow(10, y / Decade)) for 0 <= y < 8 * Decade
Pow10Floor(y) ==
  LET q == y \div Decade
      f == y % Decade
      t == f \div 1000
      r == f % 1000
      m == Pow10Table[t + 1] + ((Pow10Table[t + 2] - Pow10Table[t + 1]) * r) \div 1000
  IN  IF q >= 4 THEN m * 10^(q - 4) ELSE (m * 10^q) \div 10000

\* the logical qubits reported for a sample
logicalQubits(code, physicalQubits) ==
  IF code = "hypergraph"
  THEN \* Math.max(1, Math.floor(0.04 * physicalQubits))
       LET v == BigDivSmall(BigMulSmall(physicalQubits, 4), 100)
       IN  IF BigLt(v, ToBig(1)) THEN ToBig(1) ELSE v
  ELSE IF code = "lifted"
  THEN \* Math.max(1, Math.floor(0.38 * Math.pow(physicalQubits, 0.85)))
       ToBig(Max(1, (Pow10Floor((BigLog10(physicalQubits) * 85) \div 100) * 38) \div 100))
  ELSE ToBig(1)

\* the call, up to the loop over the samples
generatePlotDataSharedArrays(code, epsilon_L, k) ==
  /\ pc \in {"idle", "done"}
  /\ call' = [fn |-> "generatePlotData", code |-> code, p |-> 0,
              epsilon_L |-> epsilon_L, k |-> k]
  /\ evals' = 0
  /\ i' = 0
  /\ j' = 0
  /\ p' = 0
  /\ n' = ToBig(10)
  /\ nMin' = ToBig(10)
  /\ nMax' = ToBig(10)
  /\ minDiff' = Infinity
  /\ bestResult' = null
  /\ trace' = <<>>
  /\ UNCHANGED <<pValues, nValues, kValues>>
  /\ ret' = null
  /\ pc' = IF ~lookupFound(code) THEN "done" ELSE "plotOuter"
  /\ UNCHANGED uiVars

generatePlotData(code, epsilon_L, k) ==
  /\ pc \in {"idle", "done"}
  /\ call' = [fn |-> "generatePlotData", code |-> code, p |-> 0,
              epsilon_L |-> epsilon_L, k |-> k]
  /\ evals' = 0
  /\ i' = 0
  /\ j' = 0
  /\ p' = 0
  /\ n' = ToBig(10)
  /\ nMin' = ToBig(10)
  /\ nMax' = ToBig(10)
  /\ minDiff' = Infinity
  /\ bestResult' = null
  /\ trace' = <<>>
  /\ pValues' = <<>>
  /\ nValues' = <<>>
  /\ kValues' = <<>>
  /\ ret' = null
  /\ pc' = IF ~lookupFound(code) THEN "done" ELSE "plotOuter"
  /\ UNCHANGED uiVars

\* the head of the outer loop: the sample's p, the threshold guard, the push
\* of p and the initialisation of the search
plotSample ==
  /\ pc = "plotOuter"
  /\ i < PlotSamples
  /\ LET \* an undefined threshold makes p NaN, and NaN >= undefined is false
         rate == IF call.code \in Codes THEN sampleP(call.code, i) ELSE NaN
     IN  /\ p' = rate
         /\ IF call.code \in Codes /\ aboveThreshold(call.code, rate)
            THEN /\ pc' = "plotReturn"
                 /\ UNCHANGED <<pValues, nMin, nMax, n, minDiff, bestResult, trace, j>>
            ELSE /\ pValues' = Append(pValues, rate)
                 /\ nMin' = ToBig(10)
                 /\ nMax' = PlotNMax
                 /\ n' = ToBig(10)
                 /\ minDiff' = Infinity
                 /\ bestResult' = null
                 /\ trace' = <<>>
                 /\ j' = 0
                 /\ pc' = "plotInner"
  /\ UNCHANGED <<call, i, nValues, kValues, ret, evals, uiVars>>

\* one iteration of the inner loop, with its break on nMin > 1e9
plotIteration ==
  /\ pc = "plotInner"
  /\ call.code \in Codes
  /\ LET mid == Midpoint(nMin, nMax)
         result == calculateParams(call.code,
                     [p |-> p, n |-> mid, k |-> call.k])
         diff == LogDiff(result.epsilon_L, call.epsilon_L)
         raise == Exceeds(result.epsilon_L, call.epsilon_L)
     IN  /\ n' = mid
         /\ evals' = evals + 1
         /\ trace' = Append(trace, result)
         /\ IF improves(diff, minDiff)
            THEN minDiff' = diff /\ bestResult' = result
            ELSE UNCHANGED <<minDiff, bestResult>>
         /\ IF raise
            THEN nMin' = mid /\ UNCHANGED nMax
            ELSE nMax' = mid /\ UNCHANGED nMin
         /\ j' = j + 1
         \* if (nMin > 1e9) break, and the end of the loop
         /\ pc' = IF BigGt(nMin', Ceiling) \/ j + 1 >= PlotIterations
                  THEN "plotAfter" ELSE "plotInner"
  /\ UNCHANGED <<call, i, p, pValues, nValues, kValues, ret, uiVars>>

\* the call of selectedCode.calculateParams in the inner loop when the id
\* found is not an entry of the library: an uncaught TypeError
plotThrow ==
  /\ pc = "plotInner"
  /\ call.code \notin Codes
  /\ n' = Midpoint(nMin, nMax)
  /\ pc' = "threw"
  /\ UNCHANGED <<call, i, j, nMin, nMax, minDiff, bestResult, trace, p,
                 pValues, nValues, kValues, ret, evals, uiVars>>

\* bestResult && bestResult.n > 1e9
tooManyQubitsNever(best) == FALSE
tooManyQubitsTenfold(best) == best # null /\ BigGt(best.n, PlotNMax)
tooManyQubits(best) == best # null /\ BigGt(best.n, Ceiling)

\* after the search: the break on too many qubits, or the push of n and k
plotEmit ==
  /\ pc = "plotAfter"
  /\ IF tooManyQubits(bestResult)
     THEN /\ pc' = "plotReturn"
          /\ UNCHANGED <<i, nValues, kValues>>
     ELSE LET physicalQubits == IF bestResult # null THEN bestResult.n ELSE n
          IN  /\ nValues' = Append(nValues, physicalQubits)
              /\ kValues' = Append(kValues, logicalQubits(call.code, physicalQubits))
              /\ i' = i + 1
              /\ pc' = "plotOuter"
  /\ UNCHANGED <<call, j, nMin, nMax, n, minDiff, bestResult, trace, p,
                 pValues, ret, evals, uiVars>>

\* return { pValues, nValues, kValues, threshold }
plotReturn ==
  /\ \/ pc = "plotReturn"
     \/ pc = "plotOuter" /\ i >= PlotSamples
  /\ ret' = [pValues |-> pValues, nValues |-> nValues, kValues |-> kValues,
             threshold |-> threshold(call.code)]
  /\ pc' = "done"
  /\ UNCHANGED <<call, i, j, nMin, nMax, n, minDiff, bestResult, trace, p,
                 pValues, nValues, kValues, evals, uiVars>>

\* log10 of the targets the curves are drawn for: 1e-3, 1e-15
PlotTargets == {-300000, -1500000}

NextPlot ==
  \/ \E code \in CodeIds, t \in PlotTargets, k \in KValues :
       generatePlotData(code, t, k)
  \/ plotSample
  \/ plotIteration
  \/ plotThrow
  \/ plotEmit
  \/ plotReturn

SpecPlot == Init /\ [][NextPlot]_vars

(***************************************************************************)
(* The engine as its callers use it: findRequiredN and generatePlotData    *)
(* called one after the other, each call running to its end                *)
(***************************************************************************)
EngineStep ==
  \/ solveIteration
  \/ solveThrow
  \/ solveReturn
  \/ plotSample
  \/ plotIteration
  \/ plotThrow
  \/ plotEmit
  \/ plotReturn

NextEngine ==
  \/ \E code \in CodeIds, rate \in PValues,
        t \in Targets, k \in KValues : findRequiredN(code, rate, t, k)
  \/ \E code \in CodeIds, t \in PlotTargets, k \in KValues :
       generatePlotData(code, t, k)
  \/ EngineStep

SpecEngine == Init /\ [][NextEngine]_vars

(***************************************************************************)
(* The chart (App.js 1494-1495): the caller takes pValues from one         *)
(* generatePlotData call and, for each of them, nValues and kValues from   *)
(* further calls with the same arguments; the table's findRequiredN calls  *)
(* run in the same render                                                  *)
(***************************************************************************)
\* the caller holds on to the object a call returned
keepPlotData ==
  /\ pc = "done"
  /\ call.fn = "generatePlotData"
  /\ ret # null
  /\ kept' = [call |-> call, ret |-> ret]
  /\ pc' = "idle"
  /\ UNCHANGED <<inputs, results, error, dirty, slider, chain, deb, call, i, j, nMin, nMax, n,
                 minDiff, bestResult, trace, p, pValues, nValues, kValues, ret, evals>>

\* the curves and the table rows of the repeated calls
RepeatCodes == {"color", "hypergraph"}
RepeatRates == {-300000, -230103}

NextRepeat ==
  \/ \E code \in RepeatCodes, t \in PlotTargets : generatePlotData(code, t, 1)
  \/ \E code \in RepeatCodes, rate \in RepeatRates, t \in PlotTargets :
       findRequiredN(code, rate, t, 1)
  \/ keepPlotData
  \/ solveIteration
  \/ solveReturn
  \/ plotSample
  \/ plotIteration
  \/ plotEmit
  \/ plotReturn

SpecRepeat == Init /\ [][NextRepeat]_vars

(***************************************************************************)
(* The sliders: toLogScale and fromLogScale (App.js 875-894).  A value or  *)
(* a bound x is carried as Math.log10(x) and a slider position as itself,  *)
(* both as a Big in units of 1e-11, so that each division rounds (down) at *)
(* 1e-11, far more coarsely than a double does.  The bounds of every       *)
(* slider are powers of ten, given here by their decimal exponents.        *)
(***************************************************************************)
\* 1e11 / Base: x units make <<x * FinePerBase, 0>>
FinePerBase == 1000000
Fine(x) == <<x * FinePerBase, 0>>

\* the fractions of a range tried as values
MaxScaleSteps == 12

\* sliderRanges: the decimal exponents of min and max of p, epsilon_L, n, k
sliderRanges ==
  {[min |-> -6, max |-> -1], [min |-> -15, max |-> -3],
   [min |-> 1, max |-> 6], [min |-> 0, max |-> 3]}

\* (Math.log10(value) - minLog) / (maxLog - minLog) * 100
toLogScaleNoOffset(value, min, max) ==
  BigMulSmall(BigDivSmall(value, max - min), 100)
toLogScale(value, min, max) ==
  BigMulSmall(BigDivSmall(BigAdd(value, Fine(-min)), max - min), 100)

\* Math.pow(10, minLog + (value / 100) * (maxLog - minLog)), as its log10
fromLogScaleNoOffset(value, min, max) ==
  BigMulSmall(BigDivSmall(value, 100), max - min)
fromLogScale(value, min, max) ==
  BigAdd(Fine(min), BigMulSmall(BigDivSmall(value, 100), max - min))

\* the values of [min, max] tried: min, max and the fractions between
ScaleValues(range) ==
  {BigAdd(Fine(range.min),
          BigDivSmall(BigMulSmall(Fine(range.max - range.min), m), MaxScaleSteps)) :
     m \in 0 .. MaxScaleSteps}

InitScale ==
  /\ inputs = [code |-> "surface", p |-> -300000, epsilon_L |-> -600000,
               n |-> 1000, k |-> 10, d |-> 3]
  /\ results = empty
  /\ error = ""
  /\ dirty = TRUE
  /\ kept = null
  /\ chain = noChain
  /\ deb = noCalls
  /\ \E range \in sliderRanges :
       \E v \in ScaleValues(range) :
         slider = [min |-> range.min, max |-> range.max, value |-> v,
                   position |-> ToBig(0), back |-> ToBig(0), at |-> "value"]
  /\ InitEngine

\* the slider is rendered at toLogScale(value, min, max)
renderSlider ==
  /\ slider.at = "value"
  /\ slider' = [slider EXCEPT
                  !.position = toLogScale(slider.value, slider.min, slider.max),
                  !.at = "position"]
  /\ UNCHANGED <<inputs, results, error, dirty, kept, chain, deb, engineVars>>

\* the position is converted back by fromLogScale(position, min, max)
readSlider ==
  /\ slider.at = "position"
  /\ slider' = [slider EXCEPT
                  !.back = fromLogScale(slider.position, slider.min, slider.max),
                  !.at = "back"]
  /\ UNCHANGED <<inputs, results, error, dirty, kept, chain, deb, engineVars>>

NextScale ==
  \/ renderSlider
  \/ readSlider

SpecScale == InitScale /\ [][NextScale]_vars

(***************************************************************************)
(* debounce (App.js 825-831), as updateUrl uses it (849-858).  Time is     *)
(* counted in ticks; a timer can fire once its delay has passed, possibly  *)
(* later, and a call can come at any time.                                 *)
(***************************************************************************)
\* the delay of the debounced function, in ticks
wait == 2
\* the ticks of the clock and the calls of one run
MaxTime == 6
MaxCalls == 3
\* the arguments of a call
ArgValues == {"a", "b"}

InitDebounce ==
  /\ inputs = [code |-> "surface", p |-> -300000, epsilon_L |-> -600000,
               n |-> 1000, k |-> 10, d |-> 3]
  /\ results = empty
  /\ error = ""
  /\ dirty = TRUE
  /\ slider = empty
  /\ kept = null
  /\ chain = noChain
  /\ deb = noCalls
  /\ InitEngine

\* (...args) => { clearTimeout(timeout); timeout = setTimeout(..., wait); }
debouncedCallNoClear(args) ==
  /\ Len(deb.calls) < MaxCalls
  /\ deb.now + wait <= MaxTime
  /\ deb' = [deb EXCEPT
               !.pending = deb.pending
                             \cup {[id |-> deb.nextId, due |-> deb.now + wait, args |-> args]},
               !.timeout = deb.nextId,
               !.nextId = deb.nextId + 1,
               !.calls = Append(deb.calls, [at |-> deb.now, args |-> args])]
  /\ UNCHANGED <<inputs, results, error, dirty, slider, kept, chain, engineVars>>

debouncedCallIgnoredWhilePending(args) ==
  /\ Len(deb.calls) < MaxCalls
  /\ deb.now + wait <= MaxTime
  /\ deb' = IF deb.pending # {}
            THEN [deb EXCEPT !.calls = Append(deb.calls, [at |-> deb.now, args |-> args])]
            ELSE [deb EXCEPT
                    !.pending = {[id |-> deb.nextId, due |-> deb.now + wait, args |-> args]},
                    !.timeout = deb.nextId,
                    !.nextId = deb.nextId + 1,
                    !.calls = Append(deb.calls, [at |-> deb.now, args |-> args])]
  /\ UNCHANGED <<inputs, results, error, dirty, slider, kept, chain, engineVars>>

debouncedCall(args) ==
  /\ Len(deb.calls) < MaxCalls
  /\ deb.now + wait <= MaxTime
  /\ deb' = [deb EXCEPT
               \* clearTimeout(timeout) removes the timer with that id, if any is left
               !.pending = {t \in deb.pending : t.id # deb.timeout}
                             \cup {[id |-> deb.nextId, due |-> deb.now + wait, args |-> args]},
               !.timeout = deb.nextId,
               !.nextId = deb.nextId + 1,
               !.calls = Append(deb.calls, [at |-> deb.now, args |-> args])]
  /\ UNCHANGED <<inputs, results, error, dirty, slider, kept, chain, engineVars>>

\* a timer whose delay has passed runs its callback: () => func(...args)
timerFires ==
  /\ \E t \in deb.pending :
       /\ t.due <= deb.now
       /\ deb' = [deb EXCEPT
                    !.pending = deb.pending \ {t},
                    !.invoked = Append(deb.invoked,
                                       [at |-> deb.now, args |-> t.args,
                                        after |-> Len(deb.calls)])]
  /\ UNCHANGED <<inputs, results, error, dirty, slider, kept, chain, engineVars>>

\* time passes
tick ==
  /\ deb.now < MaxTime
  /\ deb' = [deb EXCEPT !.now = deb.now + 1]
  /\ UNCHANGED <<inputs, results, error, dirty, slider, kept, chain, engineVars>>

NextDebounce ==
  \/ \E args \in ArgValues : debouncedCall(args)
  \/ timerFires
  \/ tick

\* time does pass and the event loop does run the timers that are due
SpecDebounce ==
  InitDebounce /\ [][NextDebounce]_vars /\ WF_vars(tick) /\ WF_vars(timerFires)

(***************************************************************************)
(* Claims about findRequiredN, checked under SpecSolve                     *)
(***************************************************************************)
\* a findRequiredN call has returned
SolveReturned == pc = "done" /\ call.fn = "findRequiredN"

\* the epsilon_L the forward evaluator reports at n for the call's p and k
EpsAt(nn) ==
  calculateParams(call.code, [p |-> call.p, n |-> nn, k |-> call.k]).epsilon_L

\* n was a midpoint of the search
Evaluated(nn) == \E idx \in 1 .. Len(trace) : trace[idx].n = nn

(* C1: for every registered code, k and target, findRequiredN called with  *)
(* p equal to or above the code's threshold returns null and evaluates no  *)
(* formula.                                                                *)
C1_AboveThresholdNoSolution ==
  (SolveReturned /\ call.code \in Codes /\ call.p >= threshold(call.code))
    => (ret = null /\ evals = 0 /\ trace = <<>>)

C1_Witness ==
  /\ SolveReturned
  /\ call.code = "color"
  /\ call.p = threshold("color")
  /\ call.k = 2
  /\ ret = null
  /\ evals = 0

(* C2, as claimed: whenever findRequiredN returns a Result, the Result's   *)
(* epsilon_L is at or below the target.                                    *)
C2_ResultMeetsTarget ==
  (SolveReturned /\ ret # null) => ret.epsilon_L <= call.epsilon_L

(* C2, amended: whenever findRequiredN returns a Result, its epsilon_L is  *)
(* at or below the target, or it is above the target and no evaluated      *)
(* midpoint with epsilon_L at or below the target is closer to the target  *)
(* in |log10| distance.                                                    *)
C2_ResultMeetsTargetOrIsClosest ==
  (SolveReturned /\ ret # null) =>
    \/ ret.epsilon_L <= call.epsilon_L
    \/ \A idx \in 1 .. Len(trace) :
         trace[idx].epsilon_L <= call.epsilon_L =>
           \/ trace[idx].epsilon_L = NegInfinity
           \/ call.epsilon_L - trace[idx].epsilon_L >= ret.epsilon_L - call.epsilon_L

C2_Witness ==
  /\ SolveReturned
  /\ ret # null
  /\ ret.epsilon_L > call.epsilon_L
  /\ \E idx \in 1 .. Len(trace) :
       /\ trace[idx].epsilon_L <= call.epsilon_L
       /\ trace[idx].epsilon_L # NegInfinity

(* C3, as claimed: the n returned by findRequiredN is the smallest n of    *)
(* the search range whose epsilon_L is at or below the target: it meets    *)
(* the target and its predecessor does not.                                *)
C3_ReturnsSmallestN ==
  (SolveReturned /\ ret # null) =>
    /\ EpsAt(ret.n) <= call.epsilon_L
    /\ BigGt(ret.n, ToBig(10)) => EpsAt(BigAdd(ret.n, ToBig(-1))) > call.epsilon_L

(* C3, amended: given that epsilon_L is non-increasing in n, after its 20  *)
(* iterations the search has closed the bracket to a width of at most 1    *)
(* around the smallest n meeting the target (the upper bound, once         *)
(* lowered, meets the target; the lower bound, once raised, does not), and *)
(* the returned Result has the epsilon_L of one of these two bounds; the   *)
(* returned n itself need not be the smallest n meeting the target.        *)
C3_BracketClosesOnSmallestN ==
  (SolveReturned /\ ret # null) =>
    /\ BigLe(nMin, nMax)
    /\ BigLe(nMax, BigAdd(nMin, ToBig(1)))
    /\ nMax # ToBig(1000000) => (Evaluated(nMax) /\ EpsAt(nMax) <= call.epsilon_L)
    /\ nMin # ToBig(10) => (Evaluated(nMin) /\ EpsAt(nMin) > call.epsilon_L)
    /\ \/ Evaluated(nMin) /\ ret.epsilon_L = EpsAt(nMin)
       \/ Evaluated(nMax) /\ ret.epsilon_L = EpsAt(nMax)

C3_Witness ==
  /\ SolveReturned
  /\ ret # null
  /\ nMin # ToBig(10)
  /\ nMax # ToBig(1000000)
  /\ nMax = BigAdd(nMin, ToBig(1))
  /\ ret.epsilon_L = EpsAt(nMax)
  /\ BigGt(ret.n, nMax)

(* C4: findRequiredN reports null when p is below threshold but the search *)
(* fails to converge: no midpoint it evaluated, and not the top of its     *)
(* range, brings epsilon_L down to the target.                             *)
C4_NoSolutionWhenNotConverged ==
  ( /\ SolveReturned
    /\ call.code \in Codes
    /\ call.p < threshold(call.code)
    /\ \A idx \in 1 .. Len(trace) : trace[idx].epsilon_L > call.epsilon_L
    /\ EpsAt(ToBig(1000000)) > call.epsilon_L )
    => ret = null

(***************************************************************************)
(* Claims about generatePlotData, checked under SpecPlot                   *)
(***************************************************************************)
\* a generatePlotData call is running or has returned
InPlot == pc # "idle" /\ call.fn = "generatePlotData"
\* a generatePlotData call has returned its object
PlotReturned == pc = "done" /\ call.fn = "generatePlotData" /\ ret # null

(* C5: for every registered code, target and k, the p values returned by   *)
(* generatePlotData are strictly increasing, at most 50, and each strictly *)
(* below the code's threshold.                                             *)
C5_PValuesIncreasingBelowThreshold ==
  PlotReturned =>
    /\ Len(ret.pValues) <= 50
    /\ \A idx \in 1 .. Len(ret.pValues) : ret.pValues[idx] < threshold(call.code)
    /\ \A idx \in 2 .. Len(ret.pValues) : ret.pValues[idx - 1] < ret.pValues[idx]

C5_Witness ==
  /\ PlotReturned
  /\ call.code = "color"
  /\ Len(ret.pValues) = 50
  /\ ret.pValues[1] = -600000
  /\ ret.pValues[50] = threshold("color") - 436

(* C6: every point returned by generatePlotData is complete: pValues,      *)
(* nValues and kValues have the same length, also when the trace is        *)
(* truncated early.                                                        *)
C6_SameLength ==
  PlotReturned =>
    /\ Len(ret.nValues) = Len(ret.pValues)
    /\ Len(ret.kValues) = Len(ret.pValues)

(* C7: generatePlotData halts at the first p whose solved n exceeds 1e9:   *)
(* no n is emitted for that p or for any higher p, and every n of the      *)
(* returned trace is at most 1e9.                                          *)
C7_HaltsAtCeiling ==
  /\ (InPlot /\ pc = "plotAfter" /\ bestResult # null /\ BigGt(bestResult.n, Ceiling)) =>
       /\ Len(nValues) = i
       /\ \A idx \in 1 .. Len(nValues) : BigLe(nValues[idx], Ceiling)
  /\ PlotReturned =>
       /\ \A idx \in 1 .. Len(ret.nValues) : BigLe(ret.nValues[idx], Ceiling)
       /\ Len(ret.nValues) = i
       /\ i < PlotSamples => (bestResult # null /\ BigGt(bestResult.n, Ceiling))

C7_Witness ==
  /\ PlotReturned
  /\ i > 0
  /\ i < PlotSamples
  /\ Len(ret.nValues) = i
  /\ bestResult # null
  /\ BigGt(bestResult.n, Ceiling)
  /\ BigLe(ret.nValues[i], Ceiling)

(***************************************************************************)
(* Claims about the forward evaluator, checked under SpecEval              *)
(***************************************************************************)
\* calculateResults has run on a distance-based code
Evaluated4 == ~dirty /\ inputs.code \in DistanceCodes

\* ten times the yoke multiplier mu, and the ancilla overhead in tenths
Mu10(code) == CASE code = "yoked_1d" -> 18 [] code = "yoked_2d" -> 32 [] OTHER -> 10
Overhead10(code) == CASE code = "yoked_1d" -> 12 [] code = "yoked_2d" -> 15 [] OTHER -> 10

\* din = floor(sqrt(nn / kk)) for integers
IsFloorSqrt(din, nn, kk) == din * din * kk <= nn /\ nn < (din + 1) * (din + 1) * kk

(* C8: for every distance-based code and all integers n, k >= 1 the        *)
(* evaluator computes d_in = floor(sqrt(n/k)), reports d = floor(mu*d_in)  *)
(* with mu = 1, 1, 1.8, 3.2, reports n_ancilla = k*((d_in-1)^2+2*(d_in-1)) *)
(* scaled by 1.0, 1.0, 1.2, 1.5 (from the inner d_in), and echoes n and k. *)
C8_DistanceAndAncilla ==
  Evaluated4 =>
    /\ results.n = ToBig(inputs.n)
    /\ results.k = inputs.k
    /\ \E din \in 0 .. results.d :
         /\ IsFloorSqrt(din, inputs.n, inputs.k)
         /\ 10 * results.d <= Mu10(inputs.code) * din
         /\ Mu10(inputs.code) * din < 10 * (results.d + 1)
         /\ results.n_ancilla =
              ToBig(inputs.k * ((din - 1) * (din - 1) + 2 * (din - 1))
                      * Overhead10(inputs.code))

C8_Witness ==
  /\ Evaluated4
  /\ inputs.code = "yoked_1d"
  /\ inputs.n = 9
  /\ inputs.k = 1
  /\ results.d = 5
  /\ results.n_ancilla = ToBig(96)

\* the result for the same p and k at another n
AtN(nn) ==
  calculateParams(inputs.code, [p |-> inputs.p, n |-> ToBig(nn), k |-> inputs.k])

\* the inner distance of a result of a distance-based code
InnerD(nn) == CHOOSE din \in 0 .. 1000 : IsFloorSqrt(din, nn, inputs.k)

(* C9, as claimed: for every distance-based code and fixed (p, k) with p   *)
(* below threshold, any increase of n strictly increases d and strictly    *)
(* decreases epsilon_L.                                                    *)
C9_StrictInN ==
  (Evaluated4 /\ inputs.p < threshold(inputs.code)) =>
    \A n2 \in EvalNValues :
      n2 > inputs.n =>
        /\ AtN(n2).d > results.d
        /\ AtN(n2).epsilon_L < results.epsilon_L

(* C9, amended: for every distance-based code and fixed (p, k) with p      *)
(* below threshold, an increase of n never decreases d and never increases *)
(* epsilon_L, and it strictly increases d whenever it increases            *)
(* floor(sqrt(n/k)).                                                       *)
C9_MonotoneInN ==
  (Evaluated4 /\ inputs.p < threshold(inputs.code)) =>
    \A n2 \in EvalNValues :
      n2 > inputs.n =>
        /\ AtN(n2).d >= results.d
        /\ AtN(n2).epsilon_L <= results.epsilon_L
        /\ InnerD(n2) > InnerD(inputs.n) => AtN(n2).d > results.d

C9_Witness ==
  /\ Evaluated4
  /\ inputs.p < threshold(inputs.code)
  /\ inputs.code = "color"
  /\ inputs.n = 9
  /\ inputs.k = 1
  /\ AtN(15).d = results.d
  /\ AtN(16).d > results.d
  /\ AtN(16).epsilon_L = results.epsilon_L
  /\ AtN(25).epsilon_L < results.epsilon_L

\* the result of surface for the inputs' (p, n, k)
SurfaceAt == surfaceParams([p |-> inputs.p, n |-> ToBig(inputs.n), k |-> inputs.k])

(* C10, as claimed: for identical (p, n, k) with p below threshold and     *)
(* n >= k, yoked_1d reports a strictly larger d and a strictly smaller     *)
(* epsilon_L than surface.                                                 *)
C10_Yoked1dStrictlyDominates ==
  ( /\ ~dirty
    /\ inputs.code = "yoked_1d"
    /\ inputs.p < threshold("yoked_1d")
    /\ inputs.n >= inputs.k )
    => /\ results.d > SurfaceAt.d
       /\ results.epsilon_L < SurfaceAt.epsilon_L

(* C10, amended: for identical (p, n, k) with p below threshold and        *)
(* n >= k, yoked_1d reports a d at least that of surface, strictly larger  *)
(* when n >= 4k (floor(sqrt(n/k)) >= 2), and an epsilon_L at most that of  *)
(* surface, strictly smaller unless surface's epsilon_L has underflowed    *)
(* to 0.                                                                   *)
C10_Yoked1dDominates ==
  ( /\ ~dirty
    /\ inputs.code = "yoked_1d"
    /\ inputs.p < threshold("yoked_1d")
    /\ inputs.n >= inputs.k )
    => /\ results.d >= SurfaceAt.d
       /\ inputs.n >= 4 * inputs.k => results.d > SurfaceAt.d
       /\ results.epsilon_L <= SurfaceAt.epsilon_L
       /\ SurfaceAt.epsilon_L # NegInfinity => results.epsilon_L < SurfaceAt.epsilon_L

C10_Witness ==
  /\ ~dirty
  /\ inputs.code = "yoked_1d"
  /\ inputs.p < threshold("yoked_1d")
  /\ inputs.n = 1000
  /\ inputs.k = 1
  /\ SurfaceAt.d = 31
  /\ results.d = 55
  /\ results.epsilon_L < SurfaceAt.epsilon_L

\* the result of yoked_1d for the inputs' (p, n, k)
Yoked1dAt == yoked1dParams([p |-> inputs.p, n |-> ToBig(inputs.n), k |-> inputs.k])

EvaluatedAny == ~dirty /\ inputs.code \in Codes

\* the epsilon_L for the same n and k at another physical error rate
EpsAtP(rate) ==
  calculateParams(inputs.code,
                  [p |-> rate, n |-> ToBig(inputs.n), k |-> inputs.k]).epsilon_L

\* the other physical error rates below the code's threshold
RatesBelowThreshold == {rate \in PValues : rate < threshold(inputs.code)}

(* C12, as claimed: for every registered code and fixed (n, k), for any    *)
(* two physical error rates p1 < p2 both below the code's threshold,       *)
(* epsilon_L(p1) < epsilon_L(p2).                                          *)
C12_StrictInP ==
  (EvaluatedAny /\ inputs.p < threshold(inputs.code)) =>
    \A rate \in RatesBelowThreshold :
      /\ rate > inputs.p => results.epsilon_L < EpsAtP(rate)
      /\ rate < inputs.p => EpsAtP(rate) < results.epsilon_L

(* C12, amended: for every registered code and fixed (n, k), for any two   *)
(* physical error rates p1 < p2 both below the code's threshold,           *)
(* epsilon_L(p1) <= epsilon_L(p2), and epsilon_L(p1) < epsilon_L(p2)       *)
(* when n >= k >= 1 and epsilon_L(p2) has not underflowed to 0.            *)
C12_MonotoneInP ==
  (EvaluatedAny /\ inputs.p < threshold(inputs.code)) =>
    \A rate \in RatesBelowThreshold :
      /\ rate > inputs.p =>
            /\ results.epsilon_L <= EpsAtP(rate)
            /\ (inputs.n >= inputs.k /\ EpsAtP(rate) # NegInfinity)
                  => results.epsilon_L < EpsAtP(rate)
      /\ rate < inputs.p =>
            /\ EpsAtP(rate) <= results.epsilon_L
            /\ (inputs.n >= inputs.k /\ results.epsilon_L # NegInfinity)
                  => EpsAtP(rate) < results.epsilon_L

C12_Witness ==
  /\ EvaluatedAny
  /\ inputs.code = "color"
  /\ inputs.p = -300000
  /\ inputs.n = 25
  /\ inputs.k = 2
  /\ results.d = 3
  /\ -500000 \in RatesBelowThreshold
  /\ EpsAtP(-500000) < results.epsilon_L
  /\ EpsAtP(-500000) # NegInfinity

(* C13: calculateResults reports an invalid-parameter outcome (an error,   *)
(* and no Result) whenever n is non-positive.                              *)
C13_InvalidParameterReported ==
  (~dirty /\ inputs.code \in Codes /\ inputs.n <= 0) =>
    (error # "" /\ results = empty)

(***************************************************************************)
(* Claims about the lookup of a code id                                    *)
(***************************************************************************)
(* C14: for every code id that is not one of the six registered ids,       *)
(* calculateResults reports the 'not supported' error, and findRequiredN   *)
(* and generatePlotData return null, without evaluating any formula and    *)
(* without throwing.                                                       *)
C14_UnknownCodeNotFound ==
  /\ (~dirty /\ inputs.code \notin Codes) =>
       (error = "not supported" /\ results = empty)
  /\ (pc # "idle" /\ call.code \notin Codes) =>
       (pc = "done" /\ ret = null /\ evals = 0)

(* C15: every Result of the forward evaluator contains n, k and            *)
(* epsilon_L; d and n_ancilla are present exactly for the distance-based   *)
(* codes and absent for hypergraph and lifted.                             *)
C15_ResultFields ==
  EvaluatedAny =>
    /\ {"n", "k", "epsilon_L"} \subseteq DOMAIN results
    /\ "d" \in DOMAIN results <=> inputs.code \in DistanceCodes
    /\ "n_ancilla" \in DOMAIN results <=> inputs.code \in DistanceCodes

C17_PositionInRange ==
  (slider # empty /\ slider.at # "value") =>
    /\ slider.value = Fine(slider.min) => slider.position = ToBig(0)
    /\ slider.value = Fine(slider.max) => slider.position = Fine(100)
    /\ BigLe(ToBig(0), slider.position)
    /\ BigLe(slider.position, Fine(100))

C17_Witness ==
  /\ slider # empty
  /\ slider.at = "position"
  /\ slider.min = -6
  /\ slider.max = -1
  /\ slider.value = Fine(-1)
  /\ slider.position = Fine(100)

(***************************************************************************)
(* Claims about the calls of the engine, checked under SpecEngine and      *)
(* SpecRepeat                                                              *)
(***************************************************************************)
\* the steps a running call can still take, at most: 0 once it has ended
Rank ==
  CASE pc = "solve"      -> 1 + (20 - j)
    [] pc = "plotOuter"  -> (50 - i) * 33 + 1
    [] pc = "plotInner"  -> (50 - i) * 33 - j
    [] pc = "plotAfter"  -> (50 - i) * 33 - 31
    [] pc = "plotReturn" -> 1
    [] OTHER             -> 0

\* the evaluations and loop counters of the call stay within its budget
WithinBudget ==
  pc # "idle" =>
    /\ call.fn = "findRequiredN" => (evals <= 20 /\ j <= 20)
    /\ call.fn = "generatePlotData" => (evals <= 50 * 30 /\ i <= 50 /\ j <= 30)

(* C18: every call ends within its budget: a findRequiredN call makes at   *)
(* most 20 forward evaluations and a generatePlotData call at most         *)
(* 50 x 30, and every step of a running call strictly lowers the number of *)
(* steps it can still take, which is never negative; so no call runs on,   *)
(* whatever the bracket does.                                              *)
C18_TerminatesWithinBudget ==
  /\ [](WithinBudget /\ Rank >= 0)
  /\ [][EngineStep => Rank' < Rank]_vars

C18_Witness ==
  /\ pc = "done"
  /\ call.fn = "generatePlotData"
  /\ ret # null
  /\ Len(ret.nValues) = 50
  /\ evals = 50 * 30

(* C19: two generatePlotData calls with identical (code, target, k)        *)
(* return identical pValues, nValues and kValues, whatever findRequiredN   *)
(* and generatePlotData calls were made before or between them.            *)
C19_SameArgumentsSameData ==
  (pc = "done" /\ kept # null /\ call = kept.call) => ret = kept.ret

C19_Witness ==
  /\ pc = "done"
  /\ kept # null
  /\ call = kept.call
  /\ call.code = "hypergraph"
  /\ ret = kept.ret
  /\ Len(ret.nValues) > 0

(* C20: for the surface code and all integers n >= k >= 1, the exponent    *)
(* applied to p/0.011 in epsilon_L is ceil(floor(sqrt(n/k))/2).            *)
C20_SurfaceExponentCeil ==
  (~dirty /\ inputs.code = "surface" /\ inputs.n >= inputs.k) =>
    results.epsilon_L =
      TimesLog(Log003k(inputs.k),
               PowLog(inputs.p - (-195861), 2 * ((results.d + 1) \div 2)))

(***************************************************************************)
(* Claims about the search of findRequiredN and generatePlotData           *)
(***************************************************************************)
\* the distance of an evaluated result from the call's target
DiffOf(result) == LogDiff(result.epsilon_L, call.epsilon_L)

(* C21: the result findRequiredN returns is, among the midpoints it        *)
(* evaluated, one that minimises |log10(epsilon_L) - log10(target)|, and   *)
(* the earliest evaluated of those that tie; it need not be the last.      *)
C21_ReturnsEarliestClosest ==
  (SolveReturned /\ trace # <<>>) =>
    /\ ret # null
    /\ \E idx \in 1 .. Len(trace) :
         /\ trace[idx] = ret
         /\ \A later \in idx .. Len(trace) : DiffOf(trace[later]) >= DiffOf(ret)
         /\ \A earlier \in 1 .. idx - 1 : DiffOf(trace[earlier]) > DiffOf(ret)

C21_Witness ==
  /\ SolveReturned
  /\ ret # null
  /\ Len(trace) = 20
  /\ ret # trace[20]
  /\ \E a \in 1 .. 19 :
       /\ trace[a] = ret
       /\ \E b \in a + 1 .. 20 :
            trace[b].n # ret.n /\ trace[b].epsilon_L = ret.epsilon_L

\* a search is under way or has ended: the bracket and the trace are its own
InSearch == pc \in {"solve", "plotInner", "plotAfter"} \/ SolveReturned
\* the top of the search range: 1e6 or 1e10
SearchTop == IF call.fn = "findRequiredN" THEN ToBig(1000000) ELSE PlotNMax
\* the physical error rate of the search
SearchRate == IF call.fn = "findRequiredN" THEN call.p ELSE p
\* one iteration of either search
Iteration == solveIteration \/ plotIteration

\* the bracket lies in the range and every midpoint so far in the bracket
BracketInRange ==
  (InSearch /\ call.code \in Codes /\ (SolveReturned => trace # <<>>)) =>
    /\ BigLe(ToBig(10), nMin)
    /\ BigLe(nMin, nMax)
    /\ BigLe(nMax, SearchTop)
    /\ \A idx \in 1 .. Len(trace) :
         BigLe(ToBig(10), trace[idx].n) /\ BigLt(trace[idx].n, SearchTop)

\* every n returned lies in [10, top)
ReturnedInRange ==
  /\ (SolveReturned /\ ret # null) =>
       (BigLe(ToBig(10), ret.n) /\ BigLt(ret.n, ToBig(1000000)))
  /\ PlotReturned =>
       \A idx \in 1 .. Len(ret.nValues) :
         BigLe(ToBig(10), ret.nValues[idx]) /\ BigLt(ret.nValues[idx], PlotNMax)

\* an iteration takes the midpoint from the bracket and moves one bound to it
OneBoundMoves ==
  Iteration =>
    /\ BigLe(nMin, n') /\ BigLe(n', nMax)
    /\ trace'[Len(trace')].n = n'
    /\ IF trace'[Len(trace')].epsilon_L > call.epsilon_L
       THEN nMin' = n' /\ nMax' = nMax
       ELSE nMax' = n' /\ nMin' = nMin
    /\ BigLe(nMin, nMin') /\ BigLe(nMax', nMax)

(* C22: throughout every search 10 <= lower <= upper <= n_max and every    *)
(* evaluated midpoint lies between the bounds; each iteration replaces     *)
(* exactly one bound by the midpoint (the lower iff epsilon_L exceeds the  *)
(* target) and leaves the other, so the bracket never widens and every     *)
(* returned n lies in [10, n_max).                                         *)
C22_BracketInvariant ==
  /\ [](BracketInRange /\ ReturnedInRange)
  /\ [][OneBoundMoves]_vars

C22_Witness ==
  /\ pc = "plotAfter"
  /\ call.code = "hypergraph"
  /\ BigGt(nMin, ToBig(10))
  /\ BigLt(nMax, PlotNMax)
  /\ BigLt(nMin, nMax)
  /\ j = 30

\* the epsilon_L of the search's code, rate and k at n
SearchEps(nn) ==
  calculateParams(call.code, [p |-> SearchRate, n |-> nn, k |-> call.k]).epsilon_L

(* C23: at every step of a search, a lower bound that has been raised has  *)
(* epsilon_L above the target and an upper bound that has been lowered has *)
(* epsilon_L at or below it; and, epsilon_L being non-increasing in n,     *)
(* every evaluated n at or below a raised lower bound misses the target    *)
(* and every evaluated n at or above a lowered upper bound meets it.       *)
C23_BoundsStraddleTarget ==
  (InSearch /\ call.code \in Codes /\ (SolveReturned => trace # <<>>)) =>
    /\ nMin # ToBig(10) => SearchEps(nMin) > call.epsilon_L
    /\ nMax # SearchTop => SearchEps(nMax) <= call.epsilon_L
    /\ \A idx \in 1 .. Len(trace) :
         /\ (nMin # ToBig(10) /\ BigLe(trace[idx].n, nMin))
               => trace[idx].epsilon_L > call.epsilon_L
         /\ (nMax # SearchTop /\ BigLe(nMax, trace[idx].n))
               => trace[idx].epsilon_L <= call.epsilon_L
         /\ \A other \in 1 .. Len(trace) :
              BigLe(trace[idx].n, trace[other].n)
                => trace[idx].epsilon_L >= trace[other].epsilon_L

C23_Witness ==
  /\ pc = "solve"
  /\ call.code = "surface"
  /\ j = 20
  /\ nMin # ToBig(10)
  /\ nMax # ToBig(1000000)
  /\ nMax = BigAdd(nMin, ToBig(1))
  /\ SearchEps(nMin) > call.epsilon_L
  /\ SearchEps(nMax) <= call.epsilon_L

C25_ReportedKIsArgument ==
  (PlotReturned /\ call.code \in DistanceCodes) =>
    \A idx \in 1 .. Len(ret.kValues) : ret.kValues[idx] = ToBig(call.k)

(* C30: for every distance-based code and all integers n >= k >= 1,        *)
(* n_ancilla is non-negative and less than 10 * n, and it is strictly      *)
(* positive whenever floor(sqrt(n/k)) >= 2 (n_ancilla is held in tenths).  *)
C30_AncillaBounds ==
  (Evaluated4 /\ inputs.n >= inputs.k) =>
    /\ BigLe(ToBig(0), results.n_ancilla)
    /\ BigLt(results.n_ancilla, BigMulSmall(ToBig(inputs.n), 100))
    /\ InnerD(inputs.n) >= 2 => BigGt(results.n_ancilla, ToBig(0))

C30_Witness ==
  /\ Evaluated4
  /\ inputs.code = "yoked_2d"
  /\ inputs.n = 1000000
  /\ inputs.k = 1
  /\ InnerD(inputs.n) = 1000
  /\ results.n_ancilla = ToBig(14999985)

(***************************************************************************)
(* Claims about debounce, checked under SpecDebounce                       *)
(***************************************************************************)
\* the calls made so far form one sequence, each less than wait after the last
OneBurst ==
  /\ deb.calls # <<>>
  /\ \A idx \in 2 .. Len(deb.calls) : deb.calls[idx].at - deb.calls[idx - 1].at < wait

\* nothing but the last call of the sequence has been passed on
OnlyLastInvoked ==
  OneBurst =>
    /\ Len(deb.invoked) <= 1
    /\ deb.invoked # <<>> =>
         /\ deb.invoked[1].after = Len(deb.calls)
         /\ deb.invoked[1].args = deb.calls[Len(deb.calls)].args

(* C26: for a sequence of calls of a debounced function, each less than    *)
(* wait after the previous one, the wrapped function is invoked exactly    *)
(* once, with the arguments of the last call: never more than once or with *)
(* other arguments, and in the end once.                                   *)
C26_BurstInvokesOnceWithLastArgs ==
  /\ []OnlyLastInvoked
  /\ <>[](OneBurst => Len(deb.invoked) = 1)

C26_Witness ==
  /\ OneBurst
  /\ Len(deb.calls) = 3
  /\ deb.calls[1].args = "a"
  /\ deb.calls[2].args = "a"
  /\ deb.calls[3].args = "b"
  /\ Len(deb.invoked) = 1
  /\ deb.invoked[1].args = "b"

(* C27: a debounced function never invokes the wrapped function earlier    *)
(* than wait after the most recent call, and at most one timer is pending  *)
(* at any time, under every interleaving of calls and timer expiries.      *)
C27_NeverEarlyOneTimer ==
  /\ Cardinality(deb.pending) <= 1
  /\ \A idx \in 1 .. Len(deb.invoked) :
       /\ deb.invoked[idx].after >= 1
       /\ deb.invoked[idx].at - deb.calls[deb.invoked[idx].after].at >= wait

C27_Witness ==
  /\ Len(deb.calls) = 3
  /\ deb.calls[2].at - deb.calls[1].at < wait
  /\ deb.calls[3].at - deb.calls[2].at >= wait
  /\ Len(deb.invoked) = 2
  /\ deb.invoked[1].after = 2
  /\ deb.invoked[2].at > deb.calls[3].at + wait
  /\ deb.pending = {}

(***************************************************************************)
(* Claims about the calculator's effects, checked under SpecUi             *)
(***************************************************************************)
\* no effect is due
Quiescent == ~dirty /\ ~distanceDiffers

(* C28: after an input change the chain inputs -> calculateResults ->      *)
(* results -> distance sync comes to rest after at most one corrective     *)
(* update of inputs (and two calculations), and at rest inputs.d equals    *)
(* results.d whenever results.d is a positive number.                      *)
C28_ChainSettles ==
  /\ chain.syncs <= 1
  /\ chain.calcs <= 2
  /\ (Quiescent /\ "d" \in DOMAIN results /\ results.d > 0) => inputs.d = results.d

C28_Witness ==
  /\ Quiescent
  /\ chain.syncs = 1
  /\ chain.calcs = 2
  /\ inputs.code = "yoked_1d"
  /\ inputs.n = 16
  /\ inputs.k = 1
  /\ results.d = 7
  /\ inputs.d = 7

(* C29: every forward evaluation made for a distance-based code, from      *)
(* calculateResults with n in [10, 1e6] and k in [1, 1000] or from a       *)
(* midpoint of a search, is made with n >= k.                              *)
C29_EvaluatedWithNAtLeastK ==
  /\ ( /\ results # empty
       /\ "d" \in DOMAIN results
       /\ BigLe(ToBig(10), results.n) /\ BigLe(results.n, ToBig(1000000))
       /\ 1 <= results.k /\ results.k <= 1000 )
       => BigLe(ToBig(results.k), results.n)
  /\ (pc # "idle" /\ call.code \in DistanceCodes) =>
       \A idx \in 1 .. Len(trace) : BigLe(ToBig(call.k), trace[idx].n)

=============================================================================
